---- MODULE Spec2Model ----
(***************************************************************************)
(* HomeHero REST backend (src/server.js): the services and bookings        *)
(* collections, the access guard and the handlers that read and write      *)
(* them.                                                                   *)
(*                                                                         *)
(* Every handler is an async function: each `await` of a store operation   *)
(* is one atomic step of the store, and steps of different requests        *)
(* interleave freely.  A request that has performed its first store        *)
(* operation and still has one to perform is a record in the bag           *)
(* `inflight`; the record's `pc` names the store operation it performs     *)
(* next.  A timestamp is one abstract value; the free-text fields of       *)
(* bookings and reviews are not modelled.  Ratings are finite numbers.     *)
(***************************************************************************)
EXTENDS Integers, Sequences, FiniteSets, Bags, TLC

(* ------------------------------ bounds --------------------------------- *)

\* how many requests the server receives in one behaviour when requests may
\* overlap, and when they may not; no more services, bookings, reviews or
\* concurrent requests exist than requests were received
MaxRequests == 4
MaxSerialRequests == 4

Emails == {"p@x.com", "c@x.com", "d@x.com"}
Ratings == {2, 5}
ServiceIds == 1..MaxSerialRequests
BookingIds == 1..MaxSerialRequests

\* findOne's result when no document matches (null)
NoDoc == [none |-> TRUE]

\* the value of a field an object does not have (undefined)
Undefined == [undefined |-> TRUE]

(* ------------------------------ state ---------------------------------- *)

VARIABLES
    services,       \* servicesCollection: identifier -> document or NoDoc
    bookings,       \* bookingsCollection: identifier -> document or NoDoc
    nextServiceId,  \* the identifier insertOne gives the next service
    nextBookingId,  \* the identifier insertOne gives the next booking
    inflight,       \* bag of requests between two store operations
    resStatus,      \* status of the response sent by the last step, 0: none
    request,        \* the request the last step served: its route and, in
                    \* the step it arrives, its req.decoded.email
    received,       \* how many requests the server has received
    resultShape,    \* what findOneAndUpdate resolves to: "wrapped" | "direct"
    resBody,        \* the documents the response of the last step lists,
                    \* <<>> when it lists none
    overlapped      \* history: the (route, userEmail, id) of the create-booking
                    \* and add-review requests that arrived while a request
                    \* with the same three was in flight before its write

vars == <<services, bookings, nextServiceId, nextBookingId, inflight,
          resStatus, request, received, resultShape, resBody, overlapped>>

(* --------------------------- rating arithmetic ------------------------- *)

\* A rating is a rational <<numerator, denominator>> in lowest terms.
RECURSIVE Gcd(_, _)
Gcd(a, b) == IF b = 0 THEN a ELSE Gcd(b, a % b)

Rat(n, d) == <<n \div Gcd(n, d), d \div Gcd(n, d)>>

\* service.averageRating = 4.5
DefaultRating == Rat(9, 2)

\* reviews.reduce((sum, r) => sum + r.rating, 0)
RECURSIVE TotalRating(_)
TotalRating(reviews) ==
    IF reviews = <<>> THEN 0
    ELSE reviews[1].rating + TotalRating(Tail(reviews))

\* a mutant of AverageOf: the mean counts a review of rating 5 that the list
\* does not hold yet
AverageOfAhead(reviews) == Rat(TotalRating(reviews) + 5, Len(reviews) + 1)

\* a mutant of AverageOf: the quotient is truncated to an integer
AverageOfTruncated(reviews) == Rat(TotalRating(reviews) \div Len(reviews), 1)

\* totalRating / reviews.length
AverageOf(reviews) == Rat(TotalRating(reviews), Len(reviews))

(* ------------------------------ store ---------------------------------- *)

\* servicesCollection.findOne({ _id })
FindService(id) == IF id \in ServiceIds THEN services[id] ELSE NoDoc

\* bookingsCollection.findOne({ _id })
FindBooking(id) == IF id \in BookingIds THEN bookings[id] ELSE NoDoc

\* a mutant of ActiveBookings: the filter reads status: "cancelled"
ActiveBookingsCancelled(userEmail, serviceId) ==
    {b \in BookingIds : /\ bookings[b] # NoDoc
                        /\ bookings[b].userEmail = userEmail
                        /\ bookings[b].serviceId = serviceId
                        /\ bookings[b].status = "cancelled"}

\* the stored bookings matching { userEmail, serviceId, status: { $ne: "cancelled" } }
ActiveBookings(userEmail, serviceId) ==
    {b \in BookingIds : /\ bookings[b] # NoDoc
                        /\ bookings[b].userEmail = userEmail
                        /\ bookings[b].serviceId = serviceId
                        /\ bookings[b].status # "cancelled"}

\* a mutant of QualifyingBookings: the filter leaves out serviceId
QualifyingBookingsAnyService(userEmail, serviceId) ==
    {b \in BookingIds : /\ bookings[b] # NoDoc
                        /\ bookings[b].userEmail = userEmail
                        /\ bookings[b].status \in {"completed", "pending"}}

\* the stored bookings matching
\* { userEmail, serviceId, status: { $in: ["completed", "pending"] } }
QualifyingBookings(userEmail, serviceId) ==
    {b \in BookingIds : /\ bookings[b] # NoDoc
                        /\ bookings[b].userEmail = userEmail
                        /\ bookings[b].serviceId = serviceId
                        /\ bookings[b].status \in {"completed", "pending"}}

\* bookingsCollection.deleteMany({ serviceId: id })
DeleteManyBookings(id) ==
    [b \in BookingIds |->
        IF bookings[b] # NoDoc /\ bookings[b].serviceId = id
        THEN NoDoc ELSE bookings[b]]

\* a mutant of DeleteOneBooking: the booking is kept, marked cancelled
MarkBookingCancelled(id) ==
    [bookings EXCEPT ![id] = IF @ = NoDoc THEN NoDoc ELSE [@ EXCEPT !.status = "cancelled"]]

\* bookingsCollection.deleteOne({ _id })
DeleteOneBooking(id) == [bookings EXCEPT ![id] = NoDoc]

\* the requests of one handler that are in flight
InflightOf(op) == {r \in BagToSet(inflight) : r.op = op}

\* the history variable: req arrives while a request of the same route, for
\* the same userEmail and id, has still to write
Overlaps(req) ==
    \E r \in BagToSet(inflight) :
        /\ r.op = req.op
        /\ r.id = req.id
        /\ "userEmail" \in DOMAIN r
        /\ r.userEmail = req.userEmail

Suspend(req) ==
    /\ inflight' = inflight (+) SetToBag({req})
    /\ overlapped' = IF "userEmail" \in DOMAIN req /\ Overlaps(req)
                      THEN overlapped \cup {<<req.op, req.userEmail, req.id>>}
                      ELSE overlapped
Finish(req) == inflight' = inflight (-) SetToBag({req})
Advance(req, next) == inflight' = (inflight (-) SetToBag({req})) (+) SetToBag({next})

\* no request was served yet
NoRequest == [op |-> "none"]

\* a request for the route `op` arrives with a credential verifyJWT accepts;
\* decoded is the email of the identity it decodes to
Receive(op, decoded) ==
    /\ received' = received + 1
    /\ request' = [op |-> op, decoded |-> decoded]

\* a request in flight goes on
Resume(req) ==
    /\ received' = received
    /\ request' = [op |-> req.op]
    /\ overlapped' = overlapped

(* --------------------------- update payloads --------------------------- *)

\* new Date(): the model does not tell one time from another
Date == "date"

\* req.body of PATCH /services/:id.  A payload is a function from the
\* supplied field names; one carries an identifier of the client's own.
UpdatePayloads ==
    {[f \in {} |-> 0]}
    \cup {[providerEmail |-> e] : e \in Emails}
    \cup {[averageRating |-> Rat(1, 1)]}
    \cup {[reviews |-> <<>>]}
    \cup {[_id |-> 0, averageRating |-> Rat(1, 1)]}

\* a mutant of StripId: the identifier of the body is kept
StripIdNot(updateData) == updateData

\* delete updateData._id
StripId(updateData) == [f \in DOMAIN updateData \ {"_id"} |-> updateData[f]]

\* updateData.updatedAt = new Date()
Stamp(updateData) ==
    [f \in DOMAIN updateData \cup {"updatedAt"} |->
        IF f = "updatedAt" THEN Date ELSE updateData[f]]

\* updateOne({ _id }, { $set: updateData }) on the matched document
SetFields(doc, updateData) ==
    [f \in DOMAIN doc \cup DOMAIN updateData |->
        IF f \in DOMAIN updateData THEN updateData[f] ELSE doc[f]]

(* ------------------------------- Init ---------------------------------- *)

Init ==
    /\ services = [s \in ServiceIds |-> NoDoc]
    /\ bookings = [b \in BookingIds |-> NoDoc]
    /\ nextServiceId = 1
    /\ nextBookingId = 1
    /\ inflight = EmptyBag
    /\ resStatus = 0
    /\ resBody = <<>>
    /\ request = NoRequest
    /\ overlapped = {}
    /\ received = 0
    /\ resultShape \in {"wrapped", "direct"}

(* -------------------------- POST /services ----------------------------- *)

\* req.body of POST /services: the provider's email, with or without rating
\* and review data of the client's own
ServiceBodies ==
    {[providerEmail |-> e] : e \in Emails}
    \cup {[providerEmail |-> "p@x.com", averageRating |-> Rat(5, 1),
           reviews |-> <<[userEmail |-> "p@x.com", rating |-> 5]>>]}

\* service.createdAt = new Date(); service.averageRating = 4.5;
\* service.reviews = []
NewService(service) ==
    [f \in DOMAIN service \cup {"createdAt", "averageRating", "reviews"} |->
        IF f = "createdAt" THEN Date
        ELSE IF f = "averageRating" THEN DefaultRating
        ELSE IF f = "reviews" THEN <<>>
        ELSE service[f]]

\* The handler overwrites averageRating and reviews of the body and inserts it.
CreateService(decoded, service) ==
    /\ Receive("createService", decoded)
    /\ services' = [services EXCEPT ![nextServiceId] = NewService(service)]
    /\ nextServiceId' = nextServiceId + 1
    /\ resStatus' = 200
    /\ UNCHANGED <<bookings, nextBookingId, inflight, resultShape, overlapped>>
    /\ resBody' = <<>>

(* ------------------------- PATCH /services/:id ------------------------- *)

\* `!service || service.providerEmail !== email`, email = req.query.email
NotOwner(doc, email) == doc = NoDoc \/ doc.providerEmail # email

UpdateServiceFind(decoded, email, id) ==
    /\ Receive("updateService", decoded)
    /\ IF NotOwner(FindService(id), email)
       THEN /\ resStatus' = 403
            /\ UNCHANGED <<inflight, overlapped>>
       ELSE /\ Suspend([op |-> "updateService", pc |-> "updateOne",
                        id |-> id])
            /\ resStatus' = 0
    /\ UNCHANGED <<services, bookings, nextServiceId, nextBookingId, resultShape>>
    /\ resBody' = <<>>

\* updateData is the request's body; nothing reads it before this step.  The
\* store refuses a $set that names _id (the field is immutable): updateOne
\* throws and the handler's catch answers 500.
UpdateServiceUpdateOne(req, updateData) ==
    /\ req \in InflightOf("updateService")
    /\ Finish(req)
    /\ Resume(req)
    /\ LET data == Stamp(StripId(updateData))
       IN  IF "_id" \in DOMAIN data
           THEN /\ services' = services
                /\ resStatus' = 500
           ELSE /\ services' = [services EXCEPT ![req.id] =
                                   IF @ = NoDoc THEN NoDoc ELSE SetFields(@, data)]
                /\ resStatus' = 200
    /\ UNCHANGED <<bookings, nextServiceId, nextBookingId, resultShape>>
    /\ resBody' = <<>>

(* ------------------------ DELETE /services/:id ------------------------- *)

DeleteServiceFind(decoded, email, id) ==
    /\ Receive("deleteService", decoded)
    /\ IF NotOwner(FindService(id), email)
       THEN /\ resStatus' = 403
            /\ UNCHANGED <<inflight, overlapped>>
       ELSE /\ Suspend([op |-> "deleteService", pc |-> "deleteMany",
                        id |-> id])
            /\ resStatus' = 0
    /\ UNCHANGED <<services, bookings, nextServiceId, nextBookingId, resultShape>>
    /\ resBody' = <<>>

DeleteServiceDeleteMany(req) ==
    /\ req \in InflightOf("deleteService")
    /\ req.pc = "deleteMany"
    /\ bookings' = DeleteManyBookings(req.id)
    /\ Advance(req, [req EXCEPT !.pc = "deleteOne"])
    /\ Resume(req)
    /\ resStatus' = 0
    /\ UNCHANGED <<services, nextServiceId, nextBookingId, resultShape>>
    /\ resBody' = <<>>

DeleteServiceDeleteOne(req) ==
    /\ req \in InflightOf("deleteService")
    /\ req.pc = "deleteOne"
    /\ services' = [services EXCEPT ![req.id] = NoDoc]
    /\ Finish(req)
    /\ Resume(req)
    /\ resStatus' = 200
    /\ UNCHANGED <<bookings, nextServiceId, nextBookingId, resultShape>>
    /\ resBody' = <<>>

(* --------------------------- POST /bookings ---------------------------- *)

\* a mutant of OwnService: the comparison is inverted
OwnServiceInverted(service, userEmail) == service.providerEmail # userEmail

\* service.providerEmail === booking.userEmail
OwnService(service, userEmail) == service.providerEmail = userEmail

\* findOne of the service; `service.providerEmail` of null throws, and the
\* catch answers 500.  userEmail and serviceId are fields of the body.
CreateBookingFindService(decoded, userEmail, serviceId) ==
    /\ Receive("createBooking", decoded)
    /\ LET service == FindService(serviceId) IN
       IF service = NoDoc
       THEN /\ resStatus' = 500
            /\ UNCHANGED <<inflight, overlapped>>
       ELSE IF OwnService(service, userEmail)
       THEN /\ resStatus' = 400
            /\ UNCHANGED <<inflight, overlapped>>
       ELSE /\ Suspend([op |-> "createBooking", pc |-> "findExisting",
                        userEmail |-> userEmail, id |-> serviceId])
            /\ resStatus' = 0
    /\ UNCHANGED <<services, bookings, nextServiceId, nextBookingId, resultShape>>
    /\ resBody' = <<>>

CreateBookingFindExisting(req) ==
    /\ req \in InflightOf("createBooking")
    /\ req.pc = "findExisting"
    /\ Resume(req)
    /\ IF ActiveBookings(req.userEmail, req.id) # {}
       THEN /\ Finish(req)
            /\ resStatus' = 400
       ELSE /\ Advance(req, [req EXCEPT !.pc = "insertOne"])
            /\ resStatus' = 0
    /\ UNCHANGED <<services, bookings, nextServiceId, nextBookingId, resultShape>>
    /\ resBody' = <<>>

\* what req.body of POST /bookings says of the booking's status: nothing, or a
\* status of the client's own
SentStatuses ==
    {[f \in {} |-> 0], [status |-> "cancelled"], [status |-> "completed"]}

\* a mutant of NewBooking: a status the body carries is kept
NewBookingAsSent(booking) ==
    [f \in DOMAIN booking \cup {"status"} |->
        IF f = "status" /\ "status" \notin DOMAIN booking THEN "pending"
        ELSE booking[f]]

\* booking.status = "pending" (the creation time of a booking is not modelled)
NewBooking(booking) ==
    [f \in DOMAIN booking \cup {"status"} |->
        IF f = "status" THEN "pending" ELSE booking[f]]

\* sent is the part of the body that no earlier step reads
CreateBookingInsertOne(req, sent) ==
    /\ req \in InflightOf("createBooking")
    /\ req.pc = "insertOne"
    /\ bookings' = [bookings EXCEPT ![nextBookingId] =
                       NewBooking([f \in {"userEmail", "serviceId"} \cup DOMAIN sent |->
                                      IF f = "userEmail" THEN req.userEmail
                                      ELSE IF f = "serviceId" THEN req.id
                                      ELSE sent[f]])]
    /\ nextBookingId' = nextBookingId + 1
    /\ Finish(req)
    /\ Resume(req)
    /\ resStatus' = 200
    /\ UNCHANGED <<services, nextServiceId, resultShape>>
    /\ resBody' = <<>>

(* ------------------------ DELETE /bookings/:id ------------------------- *)

\* `!booking || booking.userEmail !== email`, email = req.query.email
NotCustomer(doc, email) == doc = NoDoc \/ doc.userEmail # email

CancelBookingFind(decoded, email, id) ==
    /\ Receive("cancelBooking", decoded)
    /\ IF NotCustomer(FindBooking(id), email)
       THEN /\ resStatus' = 403
            /\ UNCHANGED <<inflight, overlapped>>
       ELSE /\ Suspend([op |-> "cancelBooking", pc |-> "deleteOne",
                        id |-> id])
            /\ resStatus' = 0
    /\ UNCHANGED <<services, bookings, nextServiceId, nextBookingId, resultShape>>
    /\ resBody' = <<>>

CancelBookingDeleteOne(req) ==
    /\ req \in InflightOf("cancelBooking")
    /\ bookings' = DeleteOneBooking(req.id)
    /\ Finish(req)
    /\ Resume(req)
    /\ resStatus' = 200
    /\ UNCHANGED <<services, nextServiceId, nextBookingId, resultShape>>
    /\ resBody' = <<>>

(* ---------------------- POST /services/:id/review ---------------------- *)

\* a mutant of HasReviewed: the comparison reads review.userName
HasReviewedByName(reviews, userEmail) ==
    \E i \in 1..Len(reviews) : "Anonymous" = userEmail

\* service.reviews?.some((review) => review.userEmail === userEmail)
HasReviewed(reviews, userEmail) ==
    \E i \in 1..Len(reviews) : reviews[i].userEmail = userEmail

\* What findOneAndUpdate(..., { returnDocument: "after" }) resolves to for the
\* document `doc` after the update (NoDoc when no document matched): the
\* document itself, or a result object holding it in its `value` field.
FindOneAndUpdateResult(doc) ==
    IF resultShape = "wrapped" THEN [value |-> doc] ELSE doc

\* `updatedService.value`: undefined when the result has no such field
ValueOf(updatedService) ==
    IF "value" \in DOMAIN updatedService THEN updatedService.value ELSE Undefined

\* userEmail = req.decoded.email
AddReviewFindBooking(decoded, serviceId) ==
    /\ Receive("addReview", decoded)
    /\ IF QualifyingBookings(decoded, serviceId) = {}
       THEN /\ resStatus' = 403
            /\ UNCHANGED <<inflight, overlapped>>
       ELSE /\ Suspend([op |-> "addReview", pc |-> "findService",
                        userEmail |-> decoded, id |-> serviceId])
            /\ resStatus' = 0
    /\ UNCHANGED <<services, bookings, nextServiceId, nextBookingId, resultShape>>
    /\ resBody' = <<>>

\* `service.reviews` of null throws, and the catch answers 500.
AddReviewFindService(req) ==
    /\ req \in InflightOf("addReview")
    /\ req.pc = "findService"
    /\ Resume(req)
    /\ LET service == FindService(req.id) IN
       IF service = NoDoc
       THEN /\ Finish(req)
            /\ resStatus' = 500
       ELSE IF HasReviewed(service.reviews, req.userEmail)
       THEN /\ Finish(req)
            /\ resStatus' = 400
       ELSE /\ Advance(req, [req EXCEPT !.pc = "findOneAndUpdate"])
            /\ resStatus' = 0
    /\ UNCHANGED <<services, bookings, nextServiceId, nextBookingId, resultShape>>
    /\ resBody' = <<>>

\* $push of the review, then lines 662-671 on the resolved result: reading
\* `.reviews` of null or undefined throws, and the catch answers 500.
\* rating is parseFloat(req.body.rating); nothing reads it before this step.
AddReviewFindOneAndUpdate(req, rating) ==
    /\ req \in InflightOf("addReview")
    /\ req.pc = "findOneAndUpdate"
    /\ Resume(req)
    /\ LET review == [userEmail |-> req.userEmail, rating |-> rating]
           after == IF services[req.id] = NoDoc THEN NoDoc
                    ELSE [services[req.id] EXCEPT !.reviews = Append(@, review)]
           value == ValueOf(FindOneAndUpdateResult(after))
       IN /\ services' = [services EXCEPT ![req.id] = after]
          /\ IF value \in {NoDoc, Undefined}
             THEN /\ Finish(req)
                  /\ resStatus' = 500
             ELSE IF value.reviews = <<>>
             THEN /\ Finish(req)
                  /\ resStatus' = 200
             ELSE /\ Advance(req, [op |-> "addReview", pc |-> "updateOne",
                                   id |-> req.id,
                                   averageRating |-> AverageOf(value.reviews)])
                  /\ resStatus' = 0
    /\ UNCHANGED <<bookings, nextServiceId, nextBookingId, resultShape>>
    /\ resBody' = <<>>

\* The same step as README.md has it: the handler reads `updatedService.reviews`,
\* not `updatedService.value.reviews`.  `.reviews` of null throws, and the catch
\* answers 500; a result object without that field skips the rating write.
ReadmeAddReviewFindOneAndUpdate(req, rating) ==
    /\ req \in InflightOf("addReview")
    /\ req.pc = "findOneAndUpdate"
    /\ Resume(req)
    /\ LET review == [userEmail |-> req.userEmail, rating |-> rating]
           after == IF services[req.id] = NoDoc THEN NoDoc
                    ELSE [services[req.id] EXCEPT !.reviews = Append(@, review)]
           updatedService == FindOneAndUpdateResult(after)
       IN /\ services' = [services EXCEPT ![req.id] = after]
          /\ IF updatedService = NoDoc
             THEN /\ Finish(req)
                  /\ resStatus' = 500
             ELSE IF "reviews" \notin DOMAIN updatedService
                     \/ updatedService.reviews = <<>>
             THEN /\ Finish(req)
                  /\ resStatus' = 200
             ELSE /\ Advance(req, [op |-> "addReview", pc |-> "updateOne",
                                   id |-> req.id,
                                   averageRating |-> AverageOf(updatedService.reviews)])
                  /\ resStatus' = 0
    /\ UNCHANGED <<bookings, nextServiceId, nextBookingId, resultShape>>
    /\ resBody' = <<>>

\* updateOne({ _id }, { $set: { averageRating } })
AddReviewUpdateOne(req) ==
    /\ req \in InflightOf("addReview")
    /\ req.pc = "updateOne"
    /\ services' = [services EXCEPT ![req.id] =
                       IF @ = NoDoc THEN NoDoc
                       ELSE [@ EXCEPT !.averageRating = req.averageRating]]
    /\ Finish(req)
    /\ Resume(req)
    /\ resStatus' = 200
    /\ UNCHANGED <<bookings, nextServiceId, nextBookingId, resultShape>>
    /\ resBody' = <<>>

(* ------------------------------ verifyJWT ------------------------------ *)

\* What a request carries as its credential: no authorization header, or a
\* bearer token; jwt.verify fails (err) on a token that is expired or that
\* was not signed with the server's secret, and otherwise decodes its email.
Credentials ==
    {Undefined}
    \cup {[email |-> e, err |-> "none"] : e \in Emails}
    \cup {[email |-> "p@x.com", err |-> k] : k \in {"expired", "invalid"}}

\* a mutant of VerifyJWT: jwt.verify ignores the expiry of the token
VerifyJWTIgnoreExpiration(credential) ==
    IF credential = Undefined THEN 401
    ELSE IF credential.err = "invalid" THEN 403
    ELSE 0

\* the status verifyJWT answers with, 0 when it calls next()
VerifyJWT(credential) ==
    IF credential = Undefined THEN 401
    ELSE IF credential.err # "none" THEN 403
    ELSE 0

\* a protected route: verifyJWT answers, or the handler runs with
\* req.decoded = the token's payload
Protected(op, credential, Handler) ==
    \/ /\ VerifyJWT(credential) # 0
       /\ received' = received + 1
       /\ request' = [op |-> op]
       /\ resStatus' = VerifyJWT(credential)
       /\ resBody' = <<>>
       /\ UNCHANGED <<services, bookings, nextServiceId, nextBookingId,
                      inflight, resultShape, overlapped>>
    \/ /\ VerifyJWT(credential) = 0
       /\ Handler

(* --------------------------- GET /my-services -------------------------- *)

\* find(query).toArray(): the matching documents, in insertion order
RECURSIVE ToArray(_, _)
ToArray(ids, collection) ==
    IF ids = {} THEN <<>>
    ELSE LET first == CHOOSE i \in ids : \A j \in ids : i <= j
         IN  <<collection[first]>> \o ToArray(ids \ {first}, collection)

\* a mutant of Mismatch: the comparison is left out
MismatchNever(decoded, email) == FALSE

\* req.decoded.email !== email
Mismatch(decoded, email) == decoded # email

ListMyServices(decoded, email) ==
    /\ Receive("listMyServices", decoded)
    /\ IF Mismatch(decoded, email)
       THEN /\ resStatus' = 403
            /\ resBody' = <<>>
       ELSE /\ resStatus' = 200
            /\ resBody' = ToArray({s \in ServiceIds :
                                     /\ services[s] # NoDoc
                                     /\ services[s].providerEmail = email},
                                  services)
    /\ UNCHANGED <<services, bookings, nextServiceId, nextBookingId, inflight,
                   resultShape, overlapped>>

(* ----------------------------- GET /bookings --------------------------- *)

\* booking.service = service
AttachService(booking, service) ==
    [f \in DOMAIN booking \cup {"service"} |->
        IF f = "service" THEN service ELSE booking[f]]

\* The handler finds the caller's bookings, then reads the service of each
\* in turn and sends the list after the last read.
ListMyBookingsFind(decoded, email) ==
    /\ Receive("listMyBookings", decoded)
    /\ IF Mismatch(decoded, email)
       THEN /\ resStatus' = 403
            /\ resBody' = <<>>
            /\ UNCHANGED <<inflight, overlapped>>
       ELSE LET found == ToArray({b \in BookingIds :
                                    /\ bookings[b] # NoDoc
                                    /\ bookings[b].userEmail = email},
                                 bookings)
            IN  IF found = <<>>
                THEN /\ resStatus' = 200
                     /\ resBody' = <<>>
                     /\ UNCHANGED <<inflight, overlapped>>
                ELSE /\ Suspend([op |-> "listMyBookings", pc |-> "findOne",
                                 bookings |-> found, next |-> 1])
                     /\ resStatus' = 0
                     /\ resBody' = <<>>
    /\ UNCHANGED <<services, bookings, nextServiceId, nextBookingId, resultShape>>

ListMyBookingsFindOne(req) ==
    /\ req \in InflightOf("listMyBookings")
    /\ req.pc = "findOne"
    /\ Resume(req)
    /\ LET booking == req.bookings[req.next]
           joined  == [req.bookings EXCEPT
                          ![req.next] = AttachService(booking, FindService(booking.serviceId))]
       IN  IF req.next = Len(req.bookings)
           THEN /\ Finish(req)
                /\ resStatus' = 200
                /\ resBody' = joined
           ELSE /\ Advance(req, [req EXCEPT !.bookings = joined, !.next = @ + 1])
                /\ resStatus' = 0
                /\ resBody' = <<>>
    /\ UNCHANGED <<services, bookings, nextServiceId, nextBookingId, resultShape>>

(* ----------------------------- GET /services --------------------------- *)

\* Text is a sequence of characters.  req.query holds the parameters the
\* request carries, each a text.
Lowers == <<"a", "e", "h", "l", "m", "o", "r", "y">>
Uppers == <<"A", "E", "H", "L", "M", "O", "R", "Y">>
DigitChars == <<"0", "1", "2", "3", "4", "5", "6", "7", "8", "9">>

\* a parameter the handler takes as given: `if (param)`
Truthy(query, param) == param \in DOMAIN query /\ query[param] # <<>>

\* the value of a digit character, -1 for any other character
DigitOf(ch) ==
    IF \E i \in 1..10 : DigitChars[i] = ch
    THEN (CHOOSE i \in 1..10 : DigitChars[i] = ch) - 1
    ELSE -1

\* The result of parsing a text: NaN, or a number.
NaN == [nan |-> TRUE]

\* parseFloat and parseInt on a text of digits and letters: the number its
\* leading digits spell, NaN when it has none
RECURSIVE ParseDigits(_, _, _)
ParseDigits(text, i, value) ==
    IF i > Len(text) \/ DigitOf(text[i]) < 0
    THEN IF i = 1 THEN NaN ELSE [number |-> value]
    ELSE ParseDigits(text, i + 1, 10 * value + DigitOf(text[i]))

ParseFloat(text) == ParseDigits(text, 1, 0)
ParseInt(text) == ParseDigits(text, 1, 0)

\* $options: "i"
ToLower(text) ==
    [i \in 1..Len(text) |->
        IF \E k \in 1..Len(Uppers) : Uppers[k] = text[i]
        THEN Lowers[CHOOSE k \in 1..Len(Uppers) : Uppers[k] = text[i]]
        ELSE text[i]]

\* { $regex: search, $options: "i" } for a search text of letters: the field
\* contains the text, whatever the case
RegexMatches(field, search) ==
    \E i \in 1..(Len(field) - Len(search) + 1) :
        ToLower(SubSeq(field, i, i + Len(search) - 1)) = ToLower(search)

\* { $gte: bound } and { $lte: bound } on a numeric field; no number matches NaN
Gte(value, bound) == bound # NaN /\ value >= bound.number
Lte(value, bound) == bound # NaN /\ value <= bound.number

\* a mutant of MatchesQuery: the upper bound is exclusive
MatchesQueryBelow(doc, query) ==
    /\ (Truthy(query, "category") /\ query.category # <<"a", "l", "l">>)
          => doc.category = query.category
    /\ Truthy(query, "minPrice") => Gte(doc.price, ParseFloat(query.minPrice))
    /\ Truthy(query, "maxPrice") => (/\ Lte(doc.price, ParseFloat(query.maxPrice))
                                  /\ [number |-> doc.price] # ParseFloat(query.maxPrice))
    /\ Truthy(query, "search")
          => \/ RegexMatches(doc.serviceName, query.search)
             \/ RegexMatches(doc.category, query.search)
             \/ RegexMatches(doc.description, query.search)

\* the filter the handler builds from category, minPrice, maxPrice and search
MatchesQuery(doc, query) ==
    /\ (Truthy(query, "category") /\ query.category # <<"a", "l", "l">>)
          => doc.category = query.category
    /\ Truthy(query, "minPrice") => Gte(doc.price, ParseFloat(query.minPrice))
    /\ Truthy(query, "maxPrice") => Lte(doc.price, ParseFloat(query.maxPrice))
    /\ Truthy(query, "search")
          => \/ RegexMatches(doc.serviceName, query.search)
             \/ RegexMatches(doc.category, query.search)
             \/ RegexMatches(doc.description, query.search)

\* sortBy === selector
SortBy(query, selector) == "sortBy" \in DOMAIN query /\ query.sortBy = selector

\* a rating <<n, d>> is at most another
RatingLeq(a, b) == a[1] * b[2] <= b[1] * a[2]

\* the orders in which the store may return the documents `ids`: for a sort,
\* every order that is sorted by the key (the store does not say which of
\* two documents with equal keys comes first); without one, insertion order
Orders(ids) ==
    {o \in [1..Cardinality(ids) -> ids] :
        \A i, j \in 1..Cardinality(ids) : i # j => o[i] # o[j]}

\* a mutant of SortedOrders: the selector of the rating sort is "rating-desc"
SortedOrdersRatingDesc(ids, query) ==
    {o \in Orders(ids) :
        \A i, j \in 1..Cardinality(ids) :
            i < j =>
                IF SortBy(query, "price-asc")
                THEN services[o[i]].price <= services[o[j]].price
                ELSE IF SortBy(query, "price-desc")
                THEN services[o[i]].price >= services[o[j]].price
                ELSE IF SortBy(query, "rating-desc")
                THEN RatingLeq(services[o[j]].averageRating,
                               services[o[i]].averageRating)
                ELSE o[i] < o[j]}

SortedOrders(ids, query) ==
    {o \in Orders(ids) :
        \A i, j \in 1..Cardinality(ids) :
            i < j =>
                IF SortBy(query, "price-asc")
                THEN services[o[i]].price <= services[o[j]].price
                ELSE IF SortBy(query, "price-desc")
                THEN services[o[i]].price >= services[o[j]].price
                ELSE IF SortBy(query, "rating")
                THEN RatingLeq(services[o[j]].averageRating,
                               services[o[i]].averageRating)
                ELSE o[i] < o[j]}

\* cursor.limit(parseInt(limit)) for a limit that spells a number: the first
\* so many; limit(0) sets no limit
Limited(docs, query) ==
    IF /\ Truthy(query, "limit")
       /\ ParseInt(query.limit).number # 0
       /\ ParseInt(query.limit).number < Len(docs)
    THEN SubSeq(docs, 1, ParseInt(query.limit).number)
    ELSE docs

\* The route is not protected.  query is req.query.
ListServices(query) ==
    /\ received' = received + 1
    /\ request' = [op |-> "listServices", query |-> query]
    /\ \E o \in SortedOrders({s \in ServiceIds :
                                 services[s] # NoDoc /\ MatchesQuery(services[s], query)},
                             query) :
          resBody' = Limited([i \in DOMAIN o |-> services[o[i]]], query)
    /\ resStatus' = 200
    /\ UNCHANGED <<services, bookings, nextServiceId, nextBookingId, inflight,
                   resultShape, overlapped>>

(* ---------------------------- specification ---------------------------- *)

\* The identifiers a request names: those the store has assigned so far, and
\* one it has not (every identifier that matches no document behaves alike).
RequestServiceIds == {s \in ServiceIds : s <= nextServiceId}
RequestBookingIds == {b \in BookingIds : b <= nextBookingId}

\* a request in flight performs its next store operation
ContinueRequest ==
    \/ \E req \in InflightOf("updateService"), u \in UpdatePayloads :
          UpdateServiceUpdateOne(req, u)
    \/ \E req \in InflightOf("deleteService") : DeleteServiceDeleteMany(req)
    \/ \E req \in InflightOf("deleteService") : DeleteServiceDeleteOne(req)
    \/ \E req \in InflightOf("createBooking") : CreateBookingFindExisting(req)
    \/ \E req \in InflightOf("createBooking"), sent \in SentStatuses :
          CreateBookingInsertOne(req, sent)
    \/ \E req \in InflightOf("cancelBooking") : CancelBookingDeleteOne(req)
    \/ \E req \in InflightOf("addReview") : AddReviewFindService(req)
    \/ \E req \in InflightOf("addReview"), r \in Ratings :
          AddReviewFindOneAndUpdate(req, r)
    \/ \E req \in InflightOf("addReview") : AddReviewUpdateOne(req)

\* the server takes a request whatever it has in flight
Accepting == received < MaxRequests

\* a request arrives and performs its first store operation, or a request in
\* flight goes on
Next ==
    \/ \E d \in Emails, service \in ServiceBodies :
          Accepting /\ CreateService(d, service)
    \/ \E d \in Emails, e \in Emails, s \in RequestServiceIds :
          Accepting /\ UpdateServiceFind(d, e, s)
    \/ \E d \in Emails, e \in Emails, s \in RequestServiceIds :
          Accepting /\ DeleteServiceFind(d, e, s)
    \/ \E d \in Emails, e \in Emails, s \in RequestServiceIds :
          Accepting /\ CreateBookingFindService(d, e, s)
    \/ \E d \in Emails, e \in Emails, b \in RequestBookingIds :
          Accepting /\ CancelBookingFind(d, e, b)
    \/ \E d \in Emails, s \in RequestServiceIds :
          Accepting /\ AddReviewFindBooking(d, s)
    \/ ContinueRequest

Spec == Init /\ [][Next]_vars

\* Requests that do not overlap: one arrives only when none is in flight.
Idle == inflight = EmptyBag /\ received < MaxSerialRequests

NextSerial ==
    \/ \E d \in Emails, service \in ServiceBodies :
          Idle /\ CreateService(d, service)
    \/ \E d \in Emails, e \in Emails, s \in RequestServiceIds :
          Idle /\ UpdateServiceFind(d, e, s)
    \/ \E d \in Emails, e \in Emails, s \in RequestServiceIds :
          Idle /\ DeleteServiceFind(d, e, s)
    \/ \E d \in Emails, e \in Emails, s \in RequestServiceIds :
          Idle /\ CreateBookingFindService(d, e, s)
    \/ \E d \in Emails, e \in Emails, b \in RequestBookingIds :
          Idle /\ CancelBookingFind(d, e, b)
    \/ \E d \in Emails, s \in RequestServiceIds :
          Idle /\ AddReviewFindBooking(d, s)
    \/ ContinueRequest

SpecSerial == Init /\ [][NextSerial]_vars

(* Every protected route, with any credential. *)

MaxAccessRequests == 3

AccessAccepting == received < MaxAccessRequests

NextAccess ==
    \/ \E c \in Credentials, e \in Emails :
          AccessAccepting /\ Protected("listMyServices", c, ListMyServices(c.email, e))
    \/ \E c \in Credentials, service \in ServiceBodies :
          AccessAccepting /\ Protected("createService", c, CreateService(c.email, service))
    \/ \E c \in Credentials, e \in Emails, s \in RequestServiceIds :
          AccessAccepting /\ Protected("updateService", c, UpdateServiceFind(c.email, e, s))
    \/ \E c \in Credentials, e \in Emails, s \in RequestServiceIds :
          AccessAccepting /\ Protected("deleteService", c, DeleteServiceFind(c.email, e, s))
    \/ \E c \in Credentials, e \in Emails :
          AccessAccepting /\ Protected("listMyBookings", c, ListMyBookingsFind(c.email, e))
    \/ \E c \in Credentials, e \in Emails, s \in RequestServiceIds :
          AccessAccepting /\ Protected("createBooking", c, CreateBookingFindService(c.email, e, s))
    \/ \E c \in Credentials, e \in Emails, b \in RequestBookingIds :
          AccessAccepting /\ Protected("cancelBooking", c, CancelBookingFind(c.email, e, b))
    \/ \E c \in Credentials, s \in RequestServiceIds :
          AccessAccepting /\ Protected("addReview", c, AddReviewFindBooking(c.email, s))
    \/ \E req \in InflightOf("listMyBookings") : ListMyBookingsFindOne(req)
    \/ ContinueRequest

SpecAccess == Init /\ [][NextAccess]_vars

(* The catalogue listing, applied to the stores the write handlers leave. *)

\* how many services the listed store holds
MaxCatalogServices == 2

Prices == {0, 20, 30}

\* req.body of the POST /services requests that made the listed services
CatalogBodies ==
    {[providerEmail |-> "p@x.com", serviceName |-> n, category |-> c,
      description |-> <<"o", "k">>, price |-> p] :
        n \in {<<"H", "a", "l", "l">>, <<"H", "o", "l", "e">>},
        c \in {<<"h", "o", "m", "e">>, <<"y", "a", "r", "d">>},
        p \in Prices}

\* a service after one add-review request of a customer went through: the
\* review is pushed, and the mean is written where the handler gets that far
Reviewed(doc, rating) ==
    [doc EXCEPT !.reviews = <<[userEmail |-> "c@x.com", rating |-> rating]>>,
                !.averageRating = IF resultShape = "wrapped"
                                  THEN AverageOf(<<[userEmail |-> "c@x.com",
                                                    rating |-> rating]>>)
                                  ELSE @]

\* the store after n services were created with the documents `docs` and
\* every booking was cancelled again
CatalogInit(docs) ==
    /\ resultShape \in {"wrapped", "direct"}
    /\ \E n \in 0..MaxCatalogServices :
          /\ nextServiceId = n + 1
          /\ services \in {st \in [ServiceIds -> docs \cup {NoDoc}] :
                              \A s \in ServiceIds : st[s] # NoDoc <=> s <= n}
    /\ bookings = [b \in BookingIds |-> NoDoc]
    /\ nextBookingId = 1
    /\ inflight = EmptyBag
    /\ resStatus = 0
    /\ resBody = <<>>
    /\ request = NoRequest
    /\ overlapped = {}
    /\ received = 0

\* a behaviour makes one listing
ListAccepting == received = 0

\* the ways a request carries the parameter `name`: not at all, or with one
\* of the values
Param(name, values) ==
    {[f \in {} |-> 0]} \cup {[f \in {name} |-> v] : v \in values}

\* the query string that carries the parameters of both
Both(a, b) ==
    [f \in DOMAIN a \cup DOMAIN b |-> IF f \in DOMAIN a THEN a[f] ELSE b[f]]

\* req.query of the listings that filter
FilterQueries ==
    {Both(c, Both(lo, Both(hi, s))) :
        c \in Param("category", {<<"a", "l", "l">>, <<"h", "o", "m", "e">>}),
        lo \in Param("minPrice", {<<>>, <<"0">>, <<"2", "0">>}),
        hi \in Param("maxPrice", {<<"0">>, <<"2", "0">>}),
        s \in Param("search", {<<"H", "O">>})}

InitFilter ==
    CatalogInit({NewService(b) : b \in CatalogBodies})

NextFilter ==
    \E query \in FilterQueries : ListAccepting /\ ListServices(query)

SpecFilter == InitFilter /\ [][NextFilter]_vars

\* req.query of the listings that sort and cap
SortQueries ==
    {Both(lo, Both(so, l)) :
        lo \in Param("minPrice", {<<"2", "0">>}),
        so \in Param("sortBy", {"price-asc", "price-desc", "rating", "rating-desc"}),
        l \in Param("limit", {<<>>, <<"0">>, <<"1">>, <<"2">>})}

InitSort ==
    CatalogInit(
        LET created == {NewService(b) :
                           b \in {c \in CatalogBodies :
                                     /\ c.serviceName = <<"H", "a", "l", "l">>
                                     /\ c.category = <<"h", "o", "m", "e">>}}
        IN created \cup {Reviewed(doc, r) : doc \in created, r \in Ratings})

NextSort ==
    \E query \in SortQueries : ListAccepting /\ ListServices(query)

SpecSort == InitSort /\ [][NextSort]_vars

(* Add-review requests of customers who booked the service, overlapping. *)

\* how many add-review requests the server receives in one behaviour
MaxReviewRequests == 2

ReviewAccepting == received < MaxReviewRequests

\* the store after a provider created a service and two customers booked it
InitReviews ==
    /\ resultShape \in {"wrapped", "direct"}
    /\ services = [s \in ServiceIds |->
                      IF s = 1 THEN NewService([providerEmail |-> "p@x.com"])
                      ELSE NoDoc]
    /\ nextServiceId = 2
    /\ bookings = [b \in BookingIds |->
                      IF b = 1
                      THEN [userEmail |-> "c@x.com", serviceId |-> 1, status |-> "pending"]
                      ELSE IF b = 2
                      THEN [userEmail |-> "d@x.com", serviceId |-> 1, status |-> "pending"]
                      ELSE NoDoc]
    /\ nextBookingId = 3
    /\ inflight = EmptyBag
    /\ resStatus = 0
    /\ resBody = <<>>
    /\ request = NoRequest
    /\ overlapped = {}
    /\ received = 0

NextReviews ==
    \/ \E d \in Emails, s \in RequestServiceIds :
          ReviewAccepting /\ AddReviewFindBooking(d, s)
    \/ \E req \in InflightOf("addReview") : AddReviewFindService(req)
    \/ \E req \in InflightOf("addReview"), r \in Ratings :
          AddReviewFindOneAndUpdate(req, r)
    \/ \E req \in InflightOf("addReview") : AddReviewUpdateOne(req)

SpecReviews == InitReviews /\ [][NextReviews]_vars

\* The same requests when they do not overlap.
ReviewIdle == inflight = EmptyBag /\ received < MaxReviewRequests

NextSerialReviews ==
    \/ \E d \in Emails, s \in RequestServiceIds :
          ReviewIdle /\ AddReviewFindBooking(d, s)
    \/ \E req \in InflightOf("addReview") : AddReviewFindService(req)
    \/ \E req \in InflightOf("addReview"), r \in Ratings :
          AddReviewFindOneAndUpdate(req, r)
    \/ \E req \in InflightOf("addReview") : AddReviewUpdateOne(req)

SpecSerialReviews == InitReviews /\ [][NextSerialReviews]_vars

(* ------------------------------- claims -------------------------------- *)

\* the request req, in flight, performs a store operation in this step
StepsFrom(req) == CopiesIn(req, inflight') < CopiesIn(req, inflight)

\* the request req arrives in this step and goes on after its first check
Admitted(req) ==
    /\ received' = received + 1
    /\ CopiesIn(req, inflight') > CopiesIn(req, inflight)

\* the step answers with `status` and leaves both collections as they were
Rejected(status) ==
    /\ resStatus' = status
    /\ services' = services
    /\ bookings' = bookings
    /\ nextServiceId' = nextServiceId
    /\ nextBookingId' = nextBookingId

\* the arithmetic mean of the ratings of a non-empty review list
RECURSIVE SumOfRatings(_, _)
SumOfRatings(reviews, n) ==
    IF n = 0 THEN 0 ELSE reviews[n].rating + SumOfRatings(reviews, n - 1)

IsMeanOf(averageRating, reviews) ==
    averageRating[1] * Len(reviews) = SumOfRatings(reviews, Len(reviews)) * averageRating[2]

\* the customer holds a booking of the service that is not cancelled
HoldsBooking(userEmail, serviceId) ==
    \E b \in BookingIds :
        /\ bookings[b] # NoDoc
        /\ bookings[b].userEmail = userEmail
        /\ bookings[b].serviceId = serviceId
        /\ bookings[b].status # "cancelled"

\* C1: when requests do not overlap, an add-review request appends one review
\* of the reviewer with the submitted rating to the service's list, and when it
\* is answered with success the stored averageRating is the arithmetic mean of
\* all ratings in the service's embedded review list.
C1_AverageIsMean ==
    [][\A req \in InflightOf("addReview") :
          /\ (StepsFrom(req) /\ req.pc = "findOneAndUpdate" /\ services[req.id] # NoDoc)
                => \E r \in Ratings :
                      services'[req.id].reviews =
                          Append(services[req.id].reviews,
                                 [userEmail |-> req.userEmail, rating |-> r])
          /\ (StepsFrom(req) /\ resStatus' = 200)
                => /\ services'[req.id] # NoDoc
                   /\ services'[req.id].reviews # <<>>
                   /\ IsMeanOf(services'[req.id].averageRating,
                               services'[req.id].reviews)]_vars

\* two reviews with different ratings, the second add-review just answered 200
C1_Witness ==
    /\ request.op = "addReview"
    /\ resStatus = 200
    /\ \E s \in ServiceIds :
          /\ services[s] # NoDoc
          /\ Len(services[s].reviews) = 2
          /\ services[s].reviews[1].rating # services[s].reviews[2].rating
          /\ IsMeanOf(services[s].averageRating, services[s].reviews)

\* the stored bookings of a customer for a service that are not cancelled
BookingsOf(userEmail, serviceId) ==
    {b \in BookingIds : /\ bookings[b] # NoDoc
                        /\ bookings[b].userEmail = userEmail
                        /\ bookings[b].serviceId = serviceId
                        /\ bookings[b].status # "cancelled"}

\* C2 as stated: in every reachable state, whatever the interleaving, no two
\* bookings that are not cancelled have the same customer email and service.
C2_OneBookingPerPair ==
    \A e \in Emails, s \in ServiceIds : Cardinality(BookingsOf(e, s)) <= 1

\* C2 as amended: no two bookings that are not cancelled have the same
\* customer email and service, unless a create-booking request for that
\* customer and service arrived while another one for them was in flight.
C2_OneBookingPerPairUnlessOverlapped ==
    \A e \in Emails, s \in ServiceIds :
        <<"createBooking", e, s>> \notin overlapped
            => Cardinality(BookingsOf(e, s)) <= 1

\* no requests overlapped, the first create-booking for a pair inserted its
\* booking and the duplicate check of a second one has answered 400
C2_Witness ==
    /\ request = [op |-> "createBooking"]
    /\ resStatus = 400
    /\ overlapped = {}
    /\ nextBookingId = 2
    /\ \E e \in Emails, s \in ServiceIds : Cardinality(BookingsOf(e, s)) = 1

\* C3: a create-booking request that runs its duplicate check while the
\* customer holds a booking of the service that is not cancelled is answered
\* 400 and ends, and both collections are left unchanged.
C3_DuplicateRejected ==
    [][\A req \in InflightOf("createBooking") :
          (StepsFrom(req) /\ req.pc = "findExisting"
              /\ HoldsBooking(req.userEmail, req.id))
            => /\ Rejected(400)
               /\ inflight' = inflight (-) SetToBag({req})]_vars

\* the duplicate check of a create-booking request has just answered 400
C3_Witness ==
    /\ request = [op |-> "createBooking"]
    /\ resStatus = 400
    /\ inflight = EmptyBag
    /\ \E b \in BookingIds :
          bookings[b] # NoDoc /\ HoldsBooking(bookings[b].userEmail, bookings[b].serviceId)

\* C4: in every state, a create-booking request whose customer email is the
\* provider email of the existing service it names can only be answered 400,
\* with both collections unchanged and the request ended.
C4_OwnServiceRejected ==
    \A d \in Emails, e \in Emails, s \in ServiceIds :
        (services[s] # NoDoc /\ services[s].providerEmail = e)
            => ~ENABLED (/\ CreateBookingFindService(d, e, s)
                         /\ ~(Rejected(400) /\ inflight' = inflight))

\* a create-booking request was answered 400 by its first check
C4_Witness ==
    /\ request.op = "createBooking"
    /\ "decoded" \in DOMAIN request
    /\ resStatus = 400
    /\ \A b \in BookingIds : bookings[b] = NoDoc

\* C5: every stored booking whose service exists has a customer email that
\* differs from the service's provider email.
C5_NoSelfBooking ==
    \A b \in BookingIds :
        (bookings[b] # NoDoc /\ services[bookings[b].serviceId] # NoDoc)
            => bookings[b].userEmail # services[bookings[b].serviceId].providerEmail

\* how many reviews of the list the reviewer wrote
ReviewsBy(reviews, userEmail) ==
    Cardinality({i \in 1..Len(reviews) : reviews[i].userEmail = userEmail})

C7_SecondReviewRejected ==
    [][\A req \in InflightOf("addReview") :
          (StepsFrom(req) /\ req.pc = "findService"
              /\ services[req.id] # NoDoc
              /\ ReviewsBy(services[req.id].reviews, req.userEmail) >= 1)
            => /\ Rejected(400)
               /\ inflight' = inflight (-) SetToBag({req})]_vars

\* the second add-review of a reviewer has been answered 400 and the rating
\* is still the one the first review set
C7_Witness ==
    /\ request = [op |-> "addReview"]
    /\ resStatus = 400
    /\ inflight = EmptyBag
    /\ \E s \in ServiceIds :
          /\ services[s] # NoDoc
          /\ Len(services[s].reviews) = 1
          /\ services[s].averageRating = <<services[s].reviews[1].rating, 1>>

\* the identity holds a booking of the service with status pending or completed
HoldsQualifyingBooking(userEmail, serviceId) ==
    \E b \in BookingIds :
        /\ bookings[b] # NoDoc
        /\ bookings[b].userEmail = userEmail
        /\ bookings[b].serviceId = serviceId
        /\ bookings[b].status \in {"pending", "completed"}

\* in every state, an add-review request of an identity that holds no
\* qualifying booking of the service can only be answered 403, unchanged
C8_NoBookingRejected ==
    \A d \in Emails, s \in ServiceIds :
        ~HoldsQualifyingBooking(d, s)
            => ~ENABLED (/\ AddReviewFindBooking(d, s)
                         /\ ~(Rejected(403) /\ inflight' = inflight))

\* an add-review request goes on after its first check only as the decoded
\* identity and while that identity holds a qualifying booking, and a review
\* enters a list only by the push of such a request, under its email
C8_ReviewersHeldBooking ==
    /\ \A req \in BagToSet(inflight') :
          (Admitted(req) /\ req.op = "addReview")
            => /\ req.userEmail = request'.decoded
               /\ HoldsQualifyingBooking(req.userEmail, req.id)
    /\ \A s \in ServiceIds :
          (services[s] # NoDoc /\ services'[s] # NoDoc
              /\ Len(services'[s].reviews) > Len(services[s].reviews))
            => \E req \in InflightOf("addReview"), r \in Ratings :
                  /\ StepsFrom(req)
                  /\ req.pc = "findOneAndUpdate"
                  /\ req.id = s
                  /\ services'[s].reviews =
                        Append(services[s].reviews,
                               [userEmail |-> req.userEmail, rating |-> r])

Deleted(serviceId) ==
    serviceId < nextServiceId /\ services[serviceId] = NoDoc

\* C9: once a delete-service request has removed a service, no stored booking
\* references it, in that state and in every later one.
C9_NoBookingOfDeletedService ==
    \A b \in BookingIds :
        bookings[b] # NoDoc => ~Deleted(bookings[b].serviceId)

\* C10: an update-service, delete-service or cancel-booking request passes
\* its ownership check only when the email of its decoded identity is the
\* stored owner email of its target; any other caller is answered 403.
C10_OnlyOwnerPasses ==
    [][\A req \in BagToSet(inflight') :
          /\ (Admitted(req) /\ req.op \in {"updateService", "deleteService"})
                => request'.decoded = services[req.id].providerEmail
          /\ (Admitted(req) /\ req.op = "cancelBooking")
                => request'.decoded = bookings[req.id].userEmail]_vars

\* what the guard must do with the request of route op carrying credential c,
\* Handler being the route's handler run with the token's decoded email
GuardHolds(op, c, Handler) ==
    /\ c = Undefined
          => ~ENABLED (/\ Protected(op, c, Handler)
                       /\ ~(Rejected(401) /\ inflight' = inflight))
    /\ (c # Undefined /\ c.err # "none")
          => ~ENABLED (/\ Protected(op, c, Handler)
                       /\ ~(Rejected(403) /\ inflight' = inflight))
    /\ (c # Undefined /\ c.err = "none")
          => ~ENABLED (/\ Protected(op, c, Handler)
                       /\ request' # [op |-> op, decoded |-> c.email])

\* C11: on every protected route a request with no credential can only be
\* answered 401 and one with an invalid or expired token only 403, both
\* leaving the collections and the requests in flight as they were; a request
\* with a valid token is served with the token's email as decoded identity.
C11_GuardRejects ==
    \A c \in Credentials :
        /\ \A e \in Emails :
              /\ GuardHolds("listMyServices", c, ListMyServices(c.email, e))
              /\ GuardHolds("listMyBookings", c, ListMyBookingsFind(c.email, e))
        /\ \A service \in ServiceBodies :
              GuardHolds("createService", c, CreateService(c.email, service))
        /\ \A e \in Emails, s \in RequestServiceIds :
              /\ GuardHolds("updateService", c, UpdateServiceFind(c.email, e, s))
              /\ GuardHolds("deleteService", c, DeleteServiceFind(c.email, e, s))
              /\ GuardHolds("createBooking", c, CreateBookingFindService(c.email, e, s))
        /\ \A e \in Emails, b \in RequestBookingIds :
              GuardHolds("cancelBooking", c, CancelBookingFind(c.email, e, b))
        /\ \A s \in RequestServiceIds :
              GuardHolds("addReview", c, AddReviewFindBooking(c.email, s))

\* a delete-service request without a credential has been answered 401 while
\* a service and a booking of it are stored
C11_Witness ==
    /\ request = [op |-> "deleteService"]
    /\ resStatus = 401
    /\ \E s \in ServiceIds, b \in BookingIds :
          services[s] # NoDoc /\ bookings[b] # NoDoc /\ bookings[b].serviceId = s

\* the documents of a collection with the given identifiers, by identifier
NthOf(ids, i) == CHOOSE x \in ids : Cardinality({y \in ids : y <= x}) = i
InOrder(ids, collection) ==
    [i \in 1..Cardinality(ids) |-> collection[NthOf(ids, i)]]

ServicesOfProvider(email) ==
    InOrder({s \in ServiceIds : services[s] # NoDoc /\ services[s].providerEmail = email},
            services)
BookingsOfCustomer(email) ==
    InOrder({b \in BookingIds : bookings[b] # NoDoc /\ bookings[b].userEmail = email},
            bookings)

\* a list of bookings without the service attached to each
WithoutService(list) ==
    [i \in DOMAIN list |-> [f \in DOMAIN list[i] \ {"service"} |-> list[i][f]]]

\* in every state: a list-mine request whose email parameter differs from the
\* decoded email can only be answered 403 with no list, and one whose
\* parameter equals it lists (services) or sets out to list (bookings)
\* exactly the documents stored under the caller's email
C12_ListMineChecked ==
    \A d \in Emails :
        /\ \A e \in Emails \ {d} :
              /\ ~ENABLED (/\ ListMyServices(d, e)
                           /\ ~(Rejected(403) /\ resBody' = <<>> /\ inflight' = inflight))
              /\ ~ENABLED (/\ ListMyBookingsFind(d, e)
                           /\ ~(Rejected(403) /\ resBody' = <<>> /\ inflight' = inflight))
        /\ ~ENABLED (/\ ListMyServices(d, d)
                     /\ ~(resStatus' = 200 /\ resBody' = ServicesOfProvider(d)))
        /\ ~ENABLED (/\ ListMyBookingsFind(d, d)
                     /\ ~(IF BookingsOfCustomer(d) = <<>>
                          THEN resStatus' = 200 /\ resBody' = <<>>
                          ELSE \E req \in BagToSet(inflight') :
                                  /\ Admitted(req)
                                  /\ req.op = "listMyBookings"
                                  /\ req.bookings = BookingsOfCustomer(d)))

\* a list-my-bookings request in flight keeps the bookings it found, and
\* answers with them
C12_ListMineKept ==
    \A req \in InflightOf("listMyBookings") :
        StepsFrom(req)
            => IF resStatus' = 200
               THEN WithoutService(resBody') = WithoutService(req.bookings)
               ELSE \E next \in BagToSet(inflight') :
                       /\ CopiesIn(next, inflight') > CopiesIn(next, inflight)
                       /\ next.op = "listMyBookings"
                       /\ WithoutService(next.bookings) = WithoutService(req.bookings)

\* C12: list-my-services and list-my-bookings answer 403 when the decoded
\* email differs from the email parameter, and otherwise return exactly the
\* services whose provider email, respectively the bookings whose customer
\* email (as found by the request), is the caller's email.
C12_ListMineOnlyOwn ==
    [](C12_ListMineChecked) /\ [][C12_ListMineKept]_vars

\* a caller has been sent the one service stored under their email while a
\* service of another provider is stored
C12_Witness ==
    /\ request.op = "listMyServices"
    /\ "decoded" \in DOMAIN request
    /\ resStatus = 200
    /\ Len(resBody) = 1
    /\ resBody[1].providerEmail = request.decoded
    /\ \E s \in ServiceIds :
          services[s] # NoDoc /\ services[s].providerEmail # request.decoded

\* C13: a create-booking request that names no stored service can only be
\* answered 404, persisting no booking.
C13_MissingServiceNotFound ==
    \A d \in Emails, e \in Emails, s \in ServiceIds :
        services[s] = NoDoc
            => ~ENABLED (/\ CreateBookingFindService(d, e, s)
                         /\ ~(Rejected(404) /\ inflight' = inflight))

\* a cancel-booking request that passed its check answers 200 and removes
\* the booking's record, leaving every other booking and every service as they
\* were; the customer then holds no booking of that service
CancelRemoves ==
    \A req \in InflightOf("cancelBooking") :
        StepsFrom(req)
            => /\ resStatus' = 200
               /\ bookings'[req.id] = NoDoc
               /\ \A b \in BookingIds \ {req.id} : bookings'[b] = bookings[b]
               /\ services' = services
               /\ bookings[req.id] # NoDoc
                    => \A b \in BookingIds :
                          ~(/\ bookings'[b] # NoDoc
                            /\ bookings'[b].userEmail = bookings[req.id].userEmail
                            /\ bookings'[b].serviceId = bookings[req.id].serviceId)

\* a create-booking request of a customer who holds no booking of the service
\* passes the duplicate check, and then inserts its booking and answers 200
RebookAccepted ==
    \A req \in InflightOf("createBooking") :
        /\ (StepsFrom(req) /\ req.pc = "findExisting"
                /\ ~HoldsBooking(req.userEmail, req.id))
              => /\ resStatus' = 0
                 /\ bookings' = bookings
                 /\ inflight' = (inflight (-) SetToBag({req}))
                                  (+) SetToBag({[req EXCEPT !.pc = "insertOne"]})
        /\ (StepsFrom(req) /\ req.pc = "insertOne")
              => /\ resStatus' = 200
                 /\ bookings'[nextBookingId] =
                       [userEmail |-> req.userEmail, serviceId |-> req.id,
                        status |-> "pending"]
                 /\ \A b \in BookingIds \ {nextBookingId} : bookings'[b] = bookings[b]

\* once a cancel-booking has answered 200, a create-booking request of a
\* customer who holds no booking of a stored service of another provider goes
\* on to the duplicate check
RebookAdmitted ==
    (request = [op |-> "cancelBooking"] /\ resStatus = 200)
        => \A d \in Emails, e \in Emails, s \in ServiceIds :
              (/\ services[s] # NoDoc
               /\ services[s].providerEmail # e
               /\ ~HoldsBooking(e, s))
                  => ~ENABLED (/\ CreateBookingFindService(d, e, s)
                               /\ ~(/\ resStatus' = 0
                                    /\ inflight' = inflight (+) SetToBag({
                                          [op |-> "createBooking", pc |-> "findExisting",
                                           userEmail |-> e, id |-> s]})))

\* C14: when requests do not overlap, a successful cancel-booking removes the
\* booking's record (it does not mark it cancelled) and changes no other
\* booking and no service, and afterwards a create-booking of the same
\* customer for the same service passes both checks, inserts a pending
\* booking and answers 200.
C14_CancelThenRebook ==
    [](RebookAdmitted) /\ [][CancelRemoves /\ RebookAccepted]_vars

\* the only service ever created is stored, its first booking was cancelled
\* and a second create-booking for it has been accepted
C14_Witness ==
    /\ request = [op |-> "createBooking"]
    /\ resStatus = 200
    /\ nextServiceId = 2
    /\ services[1] # NoDoc
    /\ nextBookingId = 3
    /\ bookings[1] = NoDoc
    /\ bookings[2] # NoDoc
    /\ bookings[2].serviceId = 1

\* C15: every stored service whose review list is empty has averageRating 4.5.
C15_UnreviewedHasDefaultRating ==
    \A s \in ServiceIds :
        (services[s] # NoDoc /\ services[s].reviews = <<>>)
            => services[s].averageRating = <<9, 2>>

\* the stored service doc becomes doc2 by a partial merge of the payload u:
\* the supplied fields other than _id take the supplied values, updatedAt is
\* stamped and every other field keeps its value
MergedBy(doc, doc2, u) ==
    /\ DOMAIN doc2 = DOMAIN doc \cup (DOMAIN u \ {"_id"}) \cup {"updatedAt"}
    /\ \A f \in DOMAIN u \ {"_id"} : doc2[f] = u[f]
    /\ doc2.updatedAt = Date
    /\ \A f \in DOMAIN doc \ (DOMAIN u \cup {"updatedAt"}) : doc2[f] = doc[f]

\* C16: an update-service request that passed its check answers 200; the
\* service stays under its identifier, with the supplied fields changed, the
\* update time stamped, no identifier field written and every other field
\* kept, whether or not the payload carries an identifier; no other service
\* and no booking is changed.
C16_UpdateChangesOnlySupplied ==
    [][\A req \in InflightOf("updateService") :
          StepsFrom(req)
            => /\ resStatus' = 200
               /\ bookings' = bookings
               /\ \A s \in ServiceIds \ {req.id} : services'[s] = services[s]
               /\ IF services[req.id] = NoDoc
                  THEN services'[req.id] = NoDoc
                  ELSE /\ services'[req.id] # NoDoc
                       /\ "_id" \notin DOMAIN services'[req.id]
                       /\ \E u \in UpdatePayloads :
                             MergedBy(services[req.id], services'[req.id], u)]_vars

\* an update-service has answered 200: one service carries the update stamp
\* and the supplied rating, another stored service carries neither
C16_Witness ==
    /\ request = [op |-> "updateService"]
    /\ resStatus = 200
    /\ \E s, s2 \in ServiceIds :
          /\ services[s] # NoDoc
          /\ "updatedAt" \in DOMAIN services[s]
          /\ services[s].averageRating = <<1, 1>>
          /\ services[s2] # NoDoc
          /\ "updatedAt" \notin DOMAIN services[s2]

\* the decimal numeral of a natural number
RECURSIVE Decimal(_)
Decimal(n) ==
    IF n < 10 THEN <<DigitChars[n + 1]>>
    ELSE Append(Decimal(n \div 10), DigitChars[(n % 10) + 1])

MaxPrice == 30

\* p is within the bounds the parameters spell; a parameter that is absent
\* or empty spells none
PriceWithin(p, query) ==
    /\ \A lo \in 0..MaxPrice :
          ("minPrice" \in DOMAIN query /\ query.minPrice = Decimal(lo)) => lo <= p
    /\ \A hi \in 0..MaxPrice :
          ("maxPrice" \in DOMAIN query /\ query.maxPrice = Decimal(hi)) => p <= hi

NoPriceBounds(query) ==
    [f \in DOMAIN query \ {"minPrice", "maxPrice"} |-> query[f]]

\* C17: a listing with a lower and/or an upper price bound returns exactly
\* the stored services that match the other filters and whose price is
\* within the bounds, both inclusive; an absent bound constrains nothing, and
\* a listing with no filter parameter returns every stored service.
C17_PriceBoundsInclusive ==
    request.op = "listServices" =>
        /\ resStatus = 200
        /\ resBody =
              InOrder({s \in ServiceIds :
                          /\ services[s] # NoDoc
                          /\ MatchesQuery(services[s], NoPriceBounds(request.query))
                          /\ PriceWithin(services[s].price, request.query)},
                      services)
        /\ DOMAIN request.query = {}
              => resBody = InOrder({s \in ServiceIds : services[s] # NoDoc}, services)

\* two services are stored, and a listing with both bounds at 20 returns the
\* one that costs exactly 20
C17_Witness ==
    /\ request.op = "listServices"
    /\ DOMAIN request.query = {"minPrice", "maxPrice"}
    /\ request.query.minPrice = <<"2", "0">>
    /\ request.query.maxPrice = <<"2", "0">>
    /\ nextServiceId = 3
    /\ Len(resBody) = 1
    /\ resBody[1].price = 20

\* the stored services the filters of the query let through
Listed(query) ==
    {s \in ServiceIds : services[s] # NoDoc /\ MatchesQuery(services[s], query)}

\* document a may come before document b under the selector `by`
MayPrecede(a, b, by) ==
    IF by = "price-asc" THEN a.price <= b.price
    ELSE IF by = "price-desc" THEN a.price >= b.price
    ELSE RatingLeq(b.averageRating, a.averageRating)

\* the listings of the services `ids` in an order the selector allows:
\* the documents, each once, no later one strictly before an earlier one
OrderedListings(ids, by) ==
    {[i \in DOMAIN o |-> services[o[i]]] :
        o \in {p \in Orders(ids) :
                  \A i, j \in DOMAIN p :
                      i < j => MayPrecede(services[p[i]], services[p[j]], by)}}

\* the first k documents of a listing, all of them when it has fewer
FirstOf(docs, k) == SubSeq(docs, 1, IF k < Len(docs) THEN k ELSE Len(docs))

\* the cap the query spells, 0 when it carries none or an empty one
CapOf(query) ==
    IF "limit" \in DOMAIN query /\ \E k \in 1..(MaxCatalogServices + 1) : query.limit = Decimal(k)
    THEN CHOOSE k \in 1..(MaxCatalogServices + 1) : query.limit = Decimal(k)
    ELSE 0

\* the result follows the ordering of the selector `by` when the query
\* carries the selector `name`, cut to the cap when it carries a positive one
SortedAsCapped(name, by) ==
    ("sortBy" \in DOMAIN request.query /\ request.query.sortBy = name) =>
        \E docs \in OrderedListings(Listed(request.query), by) :
            resBody = IF CapOf(request.query) > 0
                      THEN FirstOf(docs, CapOf(request.query))
                      ELSE docs

\* C18: a listing orders its result by the sort selector: price-asc gives
\* ascending price, price-desc descending price and rating-desc descending
\* averageRating; with a cap k the result is the first k services of that
\* ordering.
C18_SortBySelector ==
    request.op = "listServices" =>
        /\ SortedAsCapped("price-asc", "price-asc")
        /\ SortedAsCapped("price-desc", "price-desc")
        /\ SortedAsCapped("rating-desc", "rating-desc")

\* C18 as the code has it: the selector of the rating order is `rating`; any
\* other selector, rating-desc included, and no selector leave the services
\* in the order of the store, cut to the cap; a cap of 0 is no cap.
C18_SortBySelectorRating ==
    request.op = "listServices" =>
        /\ resStatus = 200
        /\ SortedAsCapped("price-asc", "price-asc")
        /\ SortedAsCapped("price-desc", "price-desc")
        /\ SortedAsCapped("rating", "rating-desc")
        /\ ("sortBy" \in DOMAIN request.query
               => request.query.sortBy \notin {"price-asc", "price-desc", "rating"})
              => resBody = IF CapOf(request.query) > 0
                           THEN FirstOf(InOrder(Listed(request.query), services),
                                        CapOf(request.query))
                           ELSE InOrder(Listed(request.query), services)

\* the second of two services has the higher rating, and a listing by rating
\* capped at one returns it alone
C18_Witness ==
    /\ request.op = "listServices"
    /\ request.query = [sortBy |-> "rating", limit |-> <<"1">>]
    /\ nextServiceId = 3
    /\ services[1].averageRating = <<2, 1>>
    /\ services[2].averageRating = <<5, 1>>
    /\ resBody = <<services[2]>>

\* the reviews of the list are of different reviewers
DifferentReviewers(reviews) ==
    \A i, j \in 1..Len(reviews) : i # j => reviews[i].userEmail # reviews[j].userEmail

\* an add-review request is answered 200 in this step and leaves none in flight
LastReviewCompletes(s) ==
    /\ \E req \in InflightOf("addReview") : StepsFrom(req) /\ req.id = s
    /\ inflight' = EmptyBag
    /\ resStatus' = 200
    /\ services'[s] # NoDoc
    /\ DifferentReviewers(services'[s].reviews)

\* C19: when add-review requests of different reviewers on one service
\* overlap, then once all of them have completed the stored averageRating is
\* the arithmetic mean of the ratings in the final review list.
C19_RatingConverges ==
    [][\A s \in ServiceIds :
          LastReviewCompletes(s)
              => IsMeanOf(services'[s].averageRating, services'[s].reviews)]_vars

\* the rating is the mean of a leading part of the list
IsMeanOfLeading(averageRating, reviews) ==
    \E n \in 1..Len(reviews) : IsMeanOf(averageRating, SubSeq(reviews, 1, n))

\* C19 as the code has it: the last rating write wins, and it wrote the mean
\* of the list as it stood after its own request's push, a leading part of
\* the final list.
C19_LastWriterWins ==
    [][\A s \in ServiceIds :
          LastReviewCompletes(s)
              => IsMeanOfLeading(services'[s].averageRating, services'[s].reviews)]_vars

\* two reviewers gave different ratings, both requests have completed, and
\* the stored rating is the first reviewer's alone
C19_Witness ==
    /\ request = [op |-> "addReview"]
    /\ resStatus = 200
    /\ inflight = EmptyBag
    /\ services[1] # NoDoc
    /\ Len(services[1].reviews) = 2
    /\ DifferentReviewers(services[1].reviews)
    /\ IsMeanOf(services[1].averageRating, SubSeq(services[1].reviews, 1, 1))
    /\ ~IsMeanOf(services[1].averageRating, services[1].reviews)

\* the stored rating of every service is the one it was created with or the
\* mean of reviews its list holds
RatingFromListed ==
    \A s \in ServiceIds :
        services[s] # NoDoc
            => \/ services[s].averageRating = DefaultRating
               \/ IsMeanOfLeading(services[s].averageRating, services[s].reviews)

\* the push of an add-review request leaves the rating alone, and its rating
\* write, a later step, leaves the list alone and writes the mean of reviews
\* the list already holds
PushBeforeRating ==
    \A req \in InflightOf("addReview") :
        /\ (StepsFrom(req) /\ req.pc = "findOneAndUpdate" /\ services[req.id] # NoDoc)
              => /\ Len(services'[req.id].reviews) = Len(services[req.id].reviews) + 1
                 /\ services'[req.id].averageRating = services[req.id].averageRating
        /\ (StepsFrom(req) /\ req.pc = "updateOne" /\ services[req.id] # NoDoc)
              => /\ services'[req.id].reviews = services[req.id].reviews
                 /\ IsMeanOfLeading(services'[req.id].averageRating,
                                    services[req.id].reviews)

\* C20: within one add-review request the review is appended strictly before
\* the recomputed averageRating is stored, so in every state, those between
\* the two writes included, the stored averageRating was computed only from
\* reviews the list holds; the list may hold a review the rating does not
\* reflect yet.
C20_PushBeforeRating ==
    [](RatingFromListed) /\ [][PushBeforeRating]_vars

\* between the two writes of a request: its review is in the list, the rating
\* is still the one the service was created with
C20_Witness ==
    /\ \E req \in InflightOf("addReview") : req.pc = "updateOne" /\ req.id = 1
    /\ services[1] # NoDoc
    /\ Len(services[1].reviews) = 1
    /\ services[1].averageRating = DefaultRating

\* C21: for the same store, the same request and the same shape of the
\* find-and-update result, the add-review handler of server.js and the one of
\* README.md answer alike and leave the same store; an add-review that passed
\* both checks is never answered 500 after its review was appended.
C21_SameAsReadme ==
    [][\A req \in InflightOf("addReview"), r \in Ratings :
          AddReviewFindOneAndUpdate(req, r)
              => /\ ReadmeAddReviewFindOneAndUpdate(req, r)
                 /\ (services[req.id] # NoDoc => resStatus' # 500)]_vars

\* C22: every stored booking has status pending: create-booking overwrites a
\* status the client sent, and no step changes a stored booking; bookings
\* are only inserted or removed.
C22_AllPending ==
    /\ [](\A b \in BookingIds : bookings[b] # NoDoc => bookings[b].status = "pending")
    /\ [][\A b \in BookingIds :
             bookings[b] # NoDoc => bookings'[b] \in {bookings[b], NoDoc}]_vars

\* a booking was inserted, one was removed, and a later one is stored
C22_Witness ==
    /\ nextBookingId = 3
    /\ bookings[1] = NoDoc
    /\ bookings[2] # NoDoc
    /\ bookings[2].status = "pending"

\* C23: the customer email of every stored booking is the email of the
\* decoded identity of the create-booking request that inserted it: a
\* create-booking request goes on to its insert only in its caller's name.
C23_BookedByCaller ==
    [][\A req \in BagToSet(inflight') :
          (Admitted(req) /\ req.op = "createBooking")
              => request'.decoded = req.userEmail]_vars

ErrorStatuses == {400, 401, 403, 404, 500}

\* C24: a request that is answered with an error status leaves the services
\* and the bookings collections as they were: no step writes to the store and
\* answers with a failure.
C24_ErrorLeavesStore ==
    [][resStatus' \in ErrorStatuses
          => services' = services /\ bookings' = bookings]_vars

====
